---- MODULE Spec2Model ----
(***************************************************************************)
(* Model of package errors (ot24net/errors): the record type errImpl, its   *)
(* constructors New / Parse / ParseErr, the annotation As (method and free  *)
(* function), the comparison Equal and the JSON text form Error().          *)
(*                                                                          *)
(* A Go string is a sequence of one-character strings.  A Go slice is a     *)
(* record [nil, e]: nil tells the nil slice from the empty one (they encode *)
(* as null and as []), e holds the elements.  A pointer to errImpl is an    *)
(* index into heap, 0 being the nil pointer.                                *)
(***************************************************************************)
EXTENDS Integers, Sequences, FiniteSets, TLC

VARIABLES impl, heap, foreign, calls, last, thr, mutex

vars == <<impl, heap, foreign, calls, last, thr, mutex>>

(***************************************************************************)
(* Bounds of the model.                                                     *)
(***************************************************************************)
\* The number of calls into the package that one behaviour makes.
MaxCalls == 3

(***************************************************************************)
(* Go slices.                                                               *)
(***************************************************************************)
NilSl == [nil |-> TRUE, e |-> <<>>]

Sl(s) == [nil |-> FALSE, e |-> s]

GoLen(s) == Len(s.e)

\* append(s, x): the result is never the nil slice.
GoAppend(s, x) == [nil |-> FALSE, e |-> Append(s.e, x)]

(***************************************************************************)
(* Values an interface{} reason item can hold.  VInt is a Go int, VFloat the  *)
(* float64 that encoding/json decodes every number into, VNull the nil       *)
(* interface, VArr a []interface{}, VChan a value json.Marshal cannot encode  *)
(* (a channel, a func, a NaN).                                              *)
(***************************************************************************)
VStr(x) == [t |-> "str", v |-> x]

VInt(n) == [t |-> "int", v |-> n]

VFloat(n) == [t |-> "float", v |-> n]

VNull == [t |-> "null", v |-> 0]

VArr(s) == [t |-> "arr", v |-> s]

VChan == [t |-> "chan", v |-> 0]

(***************************************************************************)
(* Text helpers.                                                            *)
(***************************************************************************)
RECURSIVE Cat(_)
\* The concatenation of a sequence of texts.
Cat(ts) == IF ts = <<>> THEN <<>> ELSE Head(ts) \o Cat(Tail(ts))

RECURSIVE Join(_, _)
\* The texts of ts with sep between them.
Join(ts, sep) ==
    IF ts = <<>> THEN <<>>
    ELSE IF Len(ts) = 1 THEN ts[1]
    ELSE ts[1] \o sep \o Join(Tail(ts), sep)

DigitChars == <<"0", "1", "2", "3", "4", "5", "6", "7", "8", "9">>

IsDigit(c) == \E d \in 1..10 : DigitChars[d] = c

DigitVal(c) == (CHOOSE d \in 1..10 : DigitChars[d] = c) - 1

RECURSIVE Itoa(_)
\* The decimal text of a natural number (strconv / %d).
Itoa(n) == IF n < 10 THEN <<DigitChars[n + 1]>>
           ELSE Itoa(n \div 10) \o <<DigitChars[(n % 10) + 1]>>

(***************************************************************************)
(* Literal texts of the source.                                             *)
(***************************************************************************)
TxtCode == <<"c", "o", "d", "e">>

TxtReason == <<"r", "e", "a", "s", "o", "n">>

TxtWhere == <<"w", "h", "e", "r", "e">>

TxtNull == <<"n", "u", "l", "l">>

TxtNew == <<"n", "e", "w">>

TxtInit == <<"i", "n", "i", "t">>

TxtDataNotFound ==
    <<"d", "a", "t", "a", " ", "n", "o", "t", " ", "f", "o", "u", "n", "d">>

(***************************************************************************)
(* encoding/json, encoder side, as Error() and MarshalJSON use it on an     *)
(* ErrData: {"code":<string>,"reason":<slice>,"where":<slice>}, a nil slice *)
(* as null, a string quoted with " and \ escaped, a number in decimal.      *)
(***************************************************************************)
\* Quote without the escaping of " and \.
QuoteRaw(x) == <<"\"">> \o x \o <<"\"">>

Quote(x) ==
    <<"\"">>
    \o Cat([i \in 1..Len(x) |->
              IF x[i] \in {"\"", "\\"} THEN <<"\\", x[i]>> ELSE <<x[i]>>])
    \o <<"\"">>

RECURSIVE Encodable(_)
\* Whether json.Marshal accepts the value.
Encodable(v) ==
    CASE v.t = "chan" -> FALSE
      [] v.t = "arr" -> \A i \in 1..Len(v.v) : Encodable(v.v[i])
      [] OTHER -> TRUE

RECURSIVE EncValue(_)
EncValue(v) ==
    CASE v.t = "str" -> Quote(v.v)
      [] v.t \in {"int", "float"} -> Itoa(v.v)
      [] v.t = "null" -> TxtNull
      [] v.t = "arr" ->
           <<"[">> \o Join([i \in 1..Len(v.v) |-> EncValue(v.v[i])], <<",">>)
           \o <<"]">>

\* The slice s, given the encodings of its elements.
EncSlice(s, encs) ==
    IF s.nil THEN TxtNull ELSE <<"[">> \o Join(encs, <<",">>) \o <<"]">>

EncEntry(entry) ==
    EncSlice(entry, [j \in 1..Len(entry.e) |-> EncValue(entry.e[j])])

DataEncodable(data) ==
    \A i \in 1..GoLen(data.Reason) :
        \A j \in 1..GoLen(data.Reason.e[i]) : Encodable(data.Reason.e[i].e[j])

\* The JSON text of an ErrData whose items can all be encoded.
MarshalText(data) ==
    <<"{">> \o Quote(TxtCode) \o <<":">> \o Quote(data.Code)
    \o <<",">> \o Quote(TxtReason) \o <<":">>
    \o EncSlice(data.Reason,
                [i \in 1..Len(data.Reason.e) |-> EncEntry(data.Reason.e[i])])
    \o <<",">> \o Quote(TxtWhere) \o <<":">>
    \o EncSlice(data.Where,
                [i \in 1..Len(data.Where.e) |-> Quote(data.Where.e[i])])
    \o <<"}">>

\* json.Marshal(e.data): [err, text]; err is set, and no text returned, when
\* some reason item cannot be encoded.
Marshal(data) ==
    IF DataEncodable(data) THEN [err |-> FALSE, text |-> MarshalText(data)]
    ELSE [err |-> TRUE, text |-> <<>>]

(***************************************************************************)
(* fmt.Sprintf("%v", e.data): {Code [[item item] [item]] [where where]}.    *)
(***************************************************************************)
RECURSIVE FmtValue(_)
FmtValue(v) ==
    CASE v.t = "str" -> v.v
      [] v.t \in {"int", "float"} -> Itoa(v.v)
      [] v.t = "null" -> <<"<", "n", "i", "l", ">">>
      [] v.t = "chan" -> <<"0", "x", "c", "0">>
      [] v.t = "arr" ->
           <<"[">> \o Join([i \in 1..Len(v.v) |-> FmtValue(v.v[i])], <<" ">>)
           \o <<"]">>

\* A slice, given the %v texts of its elements.
FmtSlice(fmts) == <<"[">> \o Join(fmts, <<" ">>) \o <<"]">>

FmtEntry(entry) ==
    FmtSlice([j \in 1..Len(entry.e) |-> FmtValue(entry.e[j])])

Sprintf(data) ==
    <<"{">> \o data.Code \o <<" ">>
    \o FmtSlice([i \in 1..Len(data.Reason.e) |-> FmtEntry(data.Reason.e[i])])
    \o <<" ">> \o FmtSlice(data.Where.e) \o <<"}">>

\* (*errImpl).Error, given what json.Marshal returned.
ErrorText(m, data) == IF m.err THEN Sprintf(data) ELSE m.text

\* (*errImpl).Error
Error(data) == ErrorText(Marshal(data), data)

(***************************************************************************)
(* encoding/json, decoder side, as parse uses it: json.Unmarshal of a text  *)
(* into an ErrData.  The grammar covered is the one the encoder above       *)
(* writes plus what a peer may send around it: one top-level object,        *)
(* string keys, strings with the escapes \" and \\, null, non-negative      *)
(* integers, arrays, blanks between tokens.  A value in interface{} decodes *)
(* to VStr, VFloat, VNull or VArr.  Anything else is a syntax error.        *)
(***************************************************************************)
Fail == [ok |-> FALSE, v |-> 0, i |-> 0]

Got(v, i) == [ok |-> TRUE, v |-> v, i |-> i]

RECURSIVE Skip(_, _)
\* The first position from i on that holds no blank.
Skip(s, i) == IF i <= Len(s) /\ s[i] = " " THEN Skip(s, i + 1) ELSE i

RECURSIVE ScanString(_, _, _)
\* The string whose opening quote is just before i.
ScanString(s, i, acc) ==
    IF i > Len(s) THEN Fail
    ELSE IF s[i] = "\"" THEN Got(acc, i + 1)
    ELSE IF s[i] = "\\"
         THEN IF i + 1 <= Len(s) /\ s[i + 1] \in {"\"", "\\"}
              THEN ScanString(s, i + 2, Append(acc, s[i + 1]))
              ELSE Fail
    ELSE ScanString(s, i + 1, Append(acc, s[i]))

RECURSIVE ScanDigits(_, _, _)
ScanDigits(s, i, n) ==
    IF i <= Len(s) /\ IsDigit(s[i])
    THEN ScanDigits(s, i + 1, 10 * n + DigitVal(s[i]))
    ELSE Got(VFloat(n), i)

\* A number: 0, or a non-zero digit and more digits.
ScanNumber(s, i) ==
    IF s[i] = "0" THEN Got(VFloat(0), i + 1) ELSE ScanDigits(s, i, 0)

RECURSIVE ScanValue(_, _)
RECURSIVE ScanElems(_, _, _)
ScanValue(s, i0) ==
    LET i == Skip(s, i0) IN
    IF i > Len(s) THEN Fail
    ELSE CASE s[i] = "\"" ->
                LET r == ScanString(s, i + 1, <<>>) IN
                IF r.ok THEN Got(VStr(r.v), r.i) ELSE Fail
           [] IsDigit(s[i]) -> ScanNumber(s, i)
           [] s[i] = "n" ->
                IF i + 3 <= Len(s) /\ SubSeq(s, i, i + 3) = TxtNull
                THEN Got(VNull, i + 4) ELSE Fail
           [] s[i] = "[" ->
                LET j == Skip(s, i + 1) IN
                IF j <= Len(s) /\ s[j] = "]" THEN Got(VArr(<<>>), j + 1)
                ELSE ScanElems(s, j, <<>>)
           [] OTHER -> Fail

\* The elements of an array, the first of them at i.
ScanElems(s, i, acc) ==
    LET r == ScanValue(s, i) IN
    IF ~r.ok THEN Fail
    ELSE LET j == Skip(s, r.i) IN
         IF j > Len(s) THEN Fail
         ELSE IF s[j] = "," THEN ScanElems(s, j + 1, Append(acc, r.v))
         ELSE IF s[j] = "]" THEN Got(VArr(Append(acc, r.v)), j + 1)
         ELSE Fail

RECURSIVE ScanMembers(_, _, _)
\* A member whose key and value r are scanned: the separator after it.
MemberDone(s, key, r, acc) ==
    IF ~r.ok THEN Fail
    ELSE LET d == Skip(s, r.i)
             m == Append(acc, [key |-> key, val |-> r.v])
         IN IF d > Len(s) THEN Fail
            ELSE IF s[d] = "," THEN ScanMembers(s, d + 1, m)
            ELSE IF s[d] = "}" THEN Got(m, d + 1)
            ELSE Fail

\* The key/value members of an object, the first key at i0.
ScanMembers(s, i0, acc) ==
    LET i == Skip(s, i0) IN
    IF i > Len(s) \/ s[i] # "\"" THEN Fail
    ELSE LET k == ScanString(s, i + 1, <<>>) IN
         IF ~k.ok THEN Fail
         ELSE LET c == Skip(s, k.i) IN
              IF c > Len(s) \/ s[c] # ":" THEN Fail
              ELSE MemberDone(s, k.v, ScanValue(s, c + 1), acc)

\* The members of an object whose brace is just before j.
ScanBody(s, j) ==
    IF j <= Len(s) /\ s[j] = "}" THEN Got(<<>>, j + 1)
    ELSE ScanMembers(s, j, <<>>)

\* Nothing but blanks may follow the object.
ObjectEnd(s, r) == IF r.ok /\ Skip(s, r.i) = Len(s) + 1 THEN r ELSE Fail

\* The members of the object that is the whole of s (s[1] is the brace).
ScanObject(s) == ObjectEnd(s, ScanBody(s, Skip(s, 2)))

\* The zero ErrData that parse hands to json.Unmarshal.
ZeroData == [Code |-> <<>>, Reason |-> NilSl, Where |-> NilSl]

\* A "reason" element into a []interface{}: null or an array.
EntryFits(v) == v.t \in {"null", "arr"}

DecodeEntry(v) == IF v.t = "null" THEN NilSl ELSE Sl(v.v)

\* A "where" element into a string: null leaves the zero string.
WhereFits(v) == v.t \in {"null", "str"}

DecodeWhere(v) == IF v.t = "null" THEN <<>> ELSE v.v

\* One member into the struct: [err, data].  A key that names no field is
\* skipped; null leaves a string as it is and makes a slice nil; a value of
\* the wrong JSON type is an UnmarshalTypeError.
SetField(data, key, v) ==
    CASE key = TxtCode ->
           IF v.t = "str" THEN [err |-> FALSE, data |-> [data EXCEPT !.Code = v.v]]
           ELSE [err |-> v.t # "null", data |-> data]
      [] key = TxtReason ->
           IF v.t = "null"
           THEN [err |-> FALSE, data |-> [data EXCEPT !.Reason = NilSl]]
           ELSE IF v.t = "arr" /\ \A i \in 1..Len(v.v) : EntryFits(v.v[i])
           THEN [err |-> FALSE,
                 data |-> [data EXCEPT !.Reason =
                             Sl([i \in 1..Len(v.v) |-> DecodeEntry(v.v[i])])]]
           ELSE [err |-> TRUE, data |-> data]
      [] key = TxtWhere ->
           IF v.t = "null"
           THEN [err |-> FALSE, data |-> [data EXCEPT !.Where = NilSl]]
           ELSE IF v.t = "arr" /\ \A i \in 1..Len(v.v) : WhereFits(v.v[i])
           THEN [err |-> FALSE,
                 data |-> [data EXCEPT !.Where =
                             Sl([i \in 1..Len(v.v) |-> DecodeWhere(v.v[i])])]]
           ELSE [err |-> TRUE, data |-> data]
      [] OTHER -> [err |-> FALSE, data |-> data]

RECURSIVE Fill(_, _, _)
\* The i-th member is decoded, with result r: the members after it.
FillNext(ms, i, r) == IF r.err THEN r ELSE Fill(ms, i + 1, r.data)

\* The members from the i-th on, decoded into data in their order.
Fill(ms, i, data) ==
    IF i > Len(ms) THEN [err |-> FALSE, data |-> data]
    ELSE FillNext(ms, i, SetField(data, ms[i].key, ms[i].val))

\* The scanned object o into a zero ErrData: [err, data].
Decode(o) ==
    IF ~o.ok THEN [err |-> TRUE, data |-> ZeroData] ELSE Fill(o.v, 1, ZeroData)

\* json.Unmarshal([]byte(src), &data) for a src that starts with a brace.
Unmarshal(src) == Decode(ScanObject(src))

(***************************************************************************)
(* The two copies of the package in the repository.  They differ in the    *)
(* marker New records and in how Equal compares.                            *)
(***************************************************************************)
ErrorsGo == "errors.go"

Part000 == "part_000"

Impls == {ErrorsGo, Part000}

(***************************************************************************)
(* Error values: the nil interface, a *errImpl (id indexes heap, 0 is the   *)
(* nil pointer in a non-nil interface) and a foreign error (id indexes      *)
(* foreign, which holds its message).                                       *)
(***************************************************************************)
NilErr == [k |-> "nil", id |-> 0]

Rec(i) == [k |-> "rec", id |-> i]

Frn(j) == [k |-> "foreign", id |-> j]

ErrVals(h, f) ==
    {NilErr} \cup {Rec(i) : i \in 1..Len(h)} \cup {Frn(j) : j \in 1..Len(f)}

(***************************************************************************)
(* Call sites.  caller(2) formats the frame two above itself as             *)
(* func(file:line), both names cut to their last path segment.             *)
(***************************************************************************)
TxtErrorsGo == <<"e", "r", "r", "o", "r", "s", ".", "g", "o">>

TxtMainGo == <<"m", ".", "g", "o">>

Site(fn, file, line) == [fn |-> fn, file |-> file, line |-> line]

\* The frame of New's caller when parse calls New.
ParseSite(im, decodeFailed) ==
    Site(<<"e", "r", "r", "o", "r", "s", ".", "p", "a", "r", "s", "e">>,
         TxtErrorsGo,
         IF im = ErrorsGo THEN (IF decodeFailed THEN 176 ELSE 171)
                          ELSE (IF decodeFailed THEN 330 ELSE 325))

\* The frame of the package initialiser that builds ErrNoData.
InitSite(im) ==
    Site(<<"e", "r", "r", "o", "r", "s", ".", "i", "n", "i", "t">>,
         TxtErrorsGo, IF im = ErrorsGo THEN 11 ELSE 174)

\* Call sites in the program that uses the package: of New, and of As.
SiteNew == Site(<<"m", ".", "f">>, TxtMainGo, 5)

SiteAs == Site(<<"m", ".", "g">>, TxtMainGo, 9)

caller(site) ==
    site.fn \o <<"(">> \o site.file \o <<":">> \o Itoa(site.line) \o <<")">>

(***************************************************************************)
(* The package's functions.  h is the heap, f the foreign errors, im the    *)
(* copy of the package in use.                                              *)
(***************************************************************************)
Marker(im) == IF im = ErrorsGo THEN TxtNew ELSE TxtInit

\* New without the marker entry.
NewUnmarked(im, code, site) ==
    [Code |-> code, Reason |-> Sl(<<>>), Where |-> Sl(<<caller(site)>>)]

\* New: the ErrData of the record it allocates; site is New's caller.
New(im, code, site) ==
    [Code |-> code,
     Reason |-> Sl(<<Sl(<<VStr(Marker(im))>>)>>),
     Where |-> Sl(<<caller(site)>>)]

NoRec == [nil |-> TRUE, data |-> ZeroData]

NewRec(data) == [nil |-> FALSE, data |-> data]

\* parse keeping what was decoded when json.Unmarshal reports an error.
DecodedAnyway(im, src, u) == NewRec(u.data)

\* parse, given what json.Unmarshal returned.
Decoded(im, src, u) ==
    IF u.err THEN NewRec(New(im, src, ParseSite(im, TRUE))) ELSE NewRec(u.data)

\* parse: the nil pointer, or the ErrData of the record it allocates.
parse(im, src) ==
    IF Len(src) = 0 THEN NoRec
    ELSE IF src[1] # "{" THEN NewRec(New(im, src, ParseSite(im, FALSE)))
    ELSE Decoded(im, src, Unmarshal(src))

\* What a call returns: the heap after it, its result, whether it panicked.
Out(h, res) == [heap |-> h, res |-> res, panic |-> FALSE]

\* The *errImpl that parse returned, as an Error: a record new on the heap,
\* or the nil pointer in a non-nil interface.
Alloc(h, p) ==
    IF p.nil THEN Out(h, Rec(0)) ELSE Out(Append(h, p.data), Rec(Len(h) + 1))

\* Parse
Parse(h, im, src) ==
    IF Len(src) = 0 THEN Out(h, NilErr) ELSE Alloc(h, parse(im, src))

\* ParseErr (ParseError in the second copy)
ParseErr(h, f, im, src) ==
    IF src = NilErr THEN Out(h, NilErr)
    ELSE IF src.k = "rec" THEN Out(h, src)
    ELSE Alloc(h, parse(im, f[src.id]))

\* As on a copy of the record: the record e points to is left alone.
AnnotateCopy(h, e, reason, at) ==
    Append(h, [h[e] EXCEPT !.Reason = GoAppend(@, reason),
                           !.Where = GoAppend(@, at)])

\* The two appends of As on the record e points to.
Annotate(h, e, reason, at) ==
    [h EXCEPT ![e].Reason = GoAppend(@, reason), ![e].Where = GoAppend(@, at)]

\* The free function As with the append to Where left out.
AsOnReasonOnly(n, reason, at) ==
    IF n.res.id = 0 THEN [heap |-> n.heap, res |-> NilErr, panic |-> TRUE]
    ELSE Out([n.heap EXCEPT ![n.res.id].Reason = GoAppend(@, reason)], n.res)

\* The appends of the free function As through the pointer n.res that
\* ParseErr returned: writing through the nil pointer panics.
AsOn(n, reason, at) ==
    IF n.res.id = 0 THEN [heap |-> n.heap, res |-> NilErr, panic |-> TRUE]
    ELSE Out(Annotate(n.heap, n.res.id, reason, at), n.res)

\* As, the free function; site is its caller.
As(h, f, im, err, reason, site) ==
    IF err = NilErr THEN Out(h, NilErr)
    ELSE AsOn(ParseErr(h, f, im, err), reason, caller(site))

\* (*errImpl).As on the record e points to.
AsMethod(h, e, reason, site) ==
    Out(Annotate(h, e, reason, caller(site)), Rec(e))

Panic == [res |-> FALSE, panic |-> TRUE]

Ret(b) == [res |-> b, panic |-> FALSE]

\* err.Error() of a non-nil error value.
Msg(h, f, err) == IF err.k = "rec" THEN Error(h[err.id]) ELSE f[err.id]

\* parse(eMsg1).Code() == parse(eMsg2).Code(): Code() on the nil pointer
\* that parse returns for an empty message panics.
CmpParsed(p1, p2) ==
    IF p1.nil \/ p2.nil THEN Panic ELSE Ret(p1.data.Code = p2.data.Code)

\* The message comparison that ends errEqual.
CmpMsg(im, eMsg1, eMsg2) ==
    IF eMsg1 = eMsg2 THEN Ret(TRUE)
    ELSE CmpParsed(parse(im, eMsg1), parse(im, eMsg2))

IsNilPtr(err) == err.k = "rec" /\ err.id = 0

\* errEqual of errors.go: [res, panic].
errEqual(h, f, im, err1, err2) ==
    IF err1 = err2 THEN Ret(TRUE)
    ELSE IF err1 = NilErr \/ err2 = NilErr THEN Ret(FALSE)
    ELSE IF IsNilPtr(err1) \/ IsNilPtr(err2) THEN Panic
    ELSE IF err1.k = "rec" /\ err2.k = "rec"
         THEN Ret(h[err1.id].Code = h[err2.id].Code)
    ELSE CmpMsg(im, Msg(h, f, err1), Msg(h, f, err2))

\* eImpl1.Code() == eImpl2.Code() on what ParseError returned.
CmpNormal(n1, n2) ==
    IF n1.res.id = 0 \/ n2.res.id = 0 THEN Panic
    ELSE Ret(n1.heap[n1.res.id].Code = n2.heap[n2.res.id].Code)

\* equal of the second copy: [res, panic].
equal(h, f, im, err1, err2) ==
    IF err1 = err2 THEN Ret(TRUE)
    ELSE IF err1 = NilErr \/ err2 = NilErr THEN Ret(FALSE)
    ELSE CmpNormal(ParseErr(h, f, im, err1), ParseErr(h, f, im, err2))

\* Equal: errEqual in errors.go, equal in the second copy.
Equal(h, f, im, err1, err2) ==
    IF im = ErrorsGo THEN errEqual(h, f, im, err1, err2)
    ELSE equal(h, f, im, err1, err2)

\* (*errImpl).Equal on the record e points to.
EqualMethod(h, f, im, e, err) == Equal(h, f, im, Rec(e), err)

(***************************************************************************)
(* Inputs of the operations.                                                *)
(***************************************************************************)
TxtA == <<"a">>

\* The codes New is called with.
Codes == {TxtA}

\* {"code":"a"}: an object that omits reason and where.
TxtOnlyCode ==
    <<"{">> \o Quote(TxtCode) \o <<":">> \o Quote(TxtA) \o <<"}">>

\* {"code":"a","reason":[["x"]]}: a reason without its where.
TxtNoWhere ==
    <<"{">> \o Quote(TxtCode) \o <<":">> \o Quote(TxtA) \o <<",">>
    \o Quote(TxtReason) \o <<":">> \o <<"[", "[">> \o Quote(<<"x">>)
    \o <<"]", "]", "}">>

\* {"code":7}: a field of the wrong type.
TxtBadType == <<"{">> \o Quote(TxtCode) \o <<":", "7", "}">>

\* Texts a peer may send, the serialised records aside.
Texts == {<<>>, TxtDataNotFound, TxtOnlyCode, TxtNoWhere, TxtBadType}

\* The texts an error message or a Parse argument is drawn from.
Messages(h) == Texts \cup {Error(h[i]) : i \in 1..Len(h)}

\* The variadic reason of one As call; no argument gives the nil slice.
Reasons == {NilSl,
            Sl(<<VStr(<<"x", "\"">>)>>),
            Sl(<<VInt(42), VStr(<<"c", "t", "x">>)>>),
            Sl(<<VChan>>)}

\* The threads that annotate one shared record.
Threads == {1, 2}

\* No caller-side lock in use.
NoMutex == [used |-> FALSE, held |-> 0]

Idle == [t \in Threads |-> [pc |-> "idle", e |-> 0, reason |-> NilSl,
                            at |-> <<>>, rd |-> NilSl]]

NoOp == [op |-> "none", a |-> NilErr, b |-> NilErr, reason |-> NilSl,
         src |-> <<>>, at |-> <<>>, res |-> NilErr, panic |-> FALSE,
         pre |-> <<>>]

\* One more call: the program makes at most MaxCalls of them.
Call == calls < MaxCalls /\ calls' = calls + 1

(***************************************************************************)
(* The state after package initialisation: ErrNoData is the only record.    *)
(***************************************************************************)
ErrNoData == Rec(1)

Init ==
    /\ impl \in Impls
    /\ heap = <<New(impl, TxtDataNotFound, InitSite(impl))>>
    /\ foreign = <<>>
    /\ calls = 0
    /\ last = NoOp
    /\ thr = Idle
    /\ mutex = NoMutex

InitErrorsGo == Init /\ impl = ErrorsGo

\* A call that returned r is over: the heap and the record of the call.
Returned(op, a, reason, src, at, r) ==
    /\ heap' = r.heap
    /\ last' = [NoOp EXCEPT !.op = op, !.a = a, !.reason = reason, !.src = src,
                            !.at = at, !.res = r.res, !.panic = r.panic,
                            !.pre = heap]
    /\ UNCHANGED <<impl, foreign, thr, mutex>>

\* A comparison that returned r is over.
Compared(op, a, b, r) ==
    /\ last' = [NoOp EXCEPT !.op = op, !.a = a, !.b = b, !.res = r.res,
                            !.panic = r.panic, !.pre = heap]
    /\ UNCHANGED <<impl, heap, foreign, thr, mutex>>

\* errors.New(msg) of the standard library: a foreign error.
DoForeign(msg) ==
    /\ Call
    /\ foreign' = Append(foreign, msg)
    /\ last' = [NoOp EXCEPT !.op = "Foreign", !.src = msg,
                            !.res = Frn(Len(foreign) + 1), !.pre = heap]
    /\ UNCHANGED <<impl, heap, thr, mutex>>

DoNew(code, site) ==
    /\ Call
    /\ Returned("New", NilErr, NilSl, code, caller(site),
                Out(Append(heap, New(impl, code, site)), Rec(Len(heap) + 1)))

DoParse(src) ==
    /\ Call
    /\ Returned("Parse", NilErr, NilSl, src, <<>>, Parse(heap, impl, src))

DoParseErr(src) ==
    /\ Call
    /\ Returned("ParseErr", src, NilSl, <<>>, <<>>,
                ParseErr(heap, foreign, impl, src))

DoAs(err, reason, site) ==
    /\ Call
    /\ Returned("As", err, reason, <<>>, caller(site),
                As(heap, foreign, impl, err, reason, site))

DoAsMethod(e, reason, site) ==
    /\ Call
    /\ Returned("AsMethod", Rec(e), reason, <<>>, caller(site),
                AsMethod(heap, e, reason, site))

DoEqual(err1, err2) ==
    /\ Call
    /\ Compared("Equal", err1, err2, Equal(heap, foreign, impl, err1, err2))

DoError(e) ==
    /\ Call
    /\ last' = [NoOp EXCEPT !.op = "Error", !.a = Rec(e),
                            !.src = Error(heap[e]), !.pre = heap]
    /\ UNCHANGED <<impl, heap, foreign, thr, mutex>>

Next ==
    \/ \E msg \in Messages(heap) : DoForeign(msg)
    \/ \E code \in Codes : DoNew(code, SiteNew)
    \/ \E src \in Messages(heap) : DoParse(src)
    \/ \E src \in ErrVals(heap, foreign) : DoParseErr(src)
    \/ \E err \in ErrVals(heap, foreign), reason \in Reasons :
          DoAs(err, reason, SiteAs)
    \/ \E e \in 1..Len(heap), reason \in Reasons :
          DoAsMethod(e, reason, SiteAs)
    \/ \E err1, err2 \in ErrVals(heap, foreign) : DoEqual(err1, err2)
    \/ \E e \in 1..Len(heap) : DoError(e)

\* A program built from errors.go.
Spec == InitErrorsGo /\ [][Next]_vars

\* A program built from either copy of the package.
SpecAll == Init /\ [][Next]_vars

(***************************************************************************)
(* Two threads calling As on the shared record ErrNoData.  The body of As   *)
(* is two assignments, e.data.Reason = append(e.data.Reason, reason) and    *)
(* e.data.Where = append(e.data.Where, caller(2)); each reads the slice and *)
(* then writes the appended one, with no lock of the package's own around   *)
(* them.  mutex.used tells whether the callers wrap each call in a lock of  *)
(* their own.                                                               *)
(***************************************************************************)
\* The call site of thread t.
SiteOf(t) == Site(<<"m", ".", "w">>, TxtMainGo, 20 + t)

\* The reasons thread t may pass.
ReasonsOf(t) == {Sl(<<VInt(t)>>), Sl(<<VInt(t), VStr(<<"x", "\"">>)>>)}

InitRace ==
    /\ impl = ErrorsGo
    /\ heap = <<New(impl, TxtDataNotFound, InitSite(impl))>>
    /\ foreign = <<>>
    /\ calls = 0
    /\ last = NoOp
    /\ thr = Idle
    /\ mutex \in {[used |-> u, held |-> 0] : u \in BOOLEAN}

\* Thread t calls ErrNoData.As(reason...), taking the callers' lock first
\* when they use one.
Begin(t, reason) ==
    /\ thr[t].pc = "idle"
    /\ mutex.used => mutex.held = 0
    /\ mutex' = IF mutex.used THEN [mutex EXCEPT !.held = t] ELSE mutex
    /\ thr' = [thr EXCEPT ![t] = [pc |-> "loadReason", e |-> ErrNoData.id,
                                  reason |-> reason, at |-> caller(SiteOf(t)),
                                  rd |-> NilSl]]
    /\ UNCHANGED <<impl, heap, foreign, calls, last>>

\* The read of e.data.Reason.
LoadReason(t) ==
    /\ thr[t].pc = "loadReason"
    /\ thr' = [thr EXCEPT ![t].pc = "storeReason",
                          ![t].rd = heap[thr[t].e].Reason]
    /\ UNCHANGED <<impl, heap, foreign, calls, last, mutex>>

\* The write of the appended slice to e.data.Reason.
StoreReason(t) ==
    /\ thr[t].pc = "storeReason"
    /\ heap' = [heap EXCEPT ![thr[t].e].Reason =
                               GoAppend(thr[t].rd, thr[t].reason)]
    /\ thr' = [thr EXCEPT ![t].pc = "loadWhere"]
    /\ UNCHANGED <<impl, foreign, calls, last, mutex>>

\* The read of e.data.Where.
LoadWhere(t) ==
    /\ thr[t].pc = "loadWhere"
    /\ thr' = [thr EXCEPT ![t].pc = "storeWhere",
                          ![t].rd = heap[thr[t].e].Where]
    /\ UNCHANGED <<impl, heap, foreign, calls, last, mutex>>

\* StoreWhere assigning the one location instead of appending it.
StoreWhereAssign(t) ==
    /\ thr[t].pc = "storeWhere"
    /\ heap' = [heap EXCEPT ![thr[t].e].Where = Sl(<<thr[t].at>>)]
    /\ thr' = [thr EXCEPT ![t].pc = "return"]
    /\ UNCHANGED <<impl, foreign, calls, last, mutex>>

\* The write of the appended slice to e.data.Where.
StoreWhere(t) ==
    /\ thr[t].pc = "storeWhere"
    /\ heap' = [heap EXCEPT ![thr[t].e].Where = GoAppend(thr[t].rd, thr[t].at)]
    /\ thr' = [thr EXCEPT ![t].pc = "return"]
    /\ UNCHANGED <<impl, foreign, calls, last, mutex>>

\* As returns; the caller releases its lock when it uses one.
Return(t) ==
    /\ thr[t].pc = "return"
    /\ thr' = [thr EXCEPT ![t].pc = "done"]
    /\ mutex' = IF mutex.used THEN [mutex EXCEPT !.held = 0] ELSE mutex
    /\ UNCHANGED <<impl, heap, foreign, calls, last>>

NextRace ==
    \/ \E t \in Threads : \E reason \in ReasonsOf(t) : Begin(t, reason)
    \/ \E t \in Threads : LoadReason(t)
    \/ \E t \in Threads : StoreReason(t)
    \/ \E t \in Threads : LoadWhere(t)
    \/ \E t \in Threads : StoreWhere(t)
    \/ \E t \in Threads : Return(t)

\* Two threads annotating ErrNoData, with or without a lock of the callers.
SpecRace == InitRace /\ [][NextRace]_vars

(***************************************************************************)
(* Notions the properties below are stated in.                              *)
(***************************************************************************)
Recs == 1..Len(heap)

\* The record the last call allocated, when it allocated one.
Fresh == heap[Len(heap)]

Allocated == Len(heap) = Len(last.pre) + 1

\* The slice s is the start of the slice t.
IsPrefix(s, t) ==
    GoLen(s) <= GoLen(t) /\ \A k \in 1..GoLen(s) : t.e[k] = s.e[k]

\* The marker entry of errors.go, spelled out.
NewEntry == Sl(<<VStr(<<"n", "e", "w">>)>>)

\* The marker entry of the second copy, spelled out.
InitEntry == Sl(<<VStr(<<"i", "n", "i", "t">>)>>)

\* The record is as New leaves it: the code, one marker entry, one location.
AsConstructed(r, code, entry) ==
    r.Code = code /\ r.Reason = Sl(<<entry>>) /\ GoLen(r.Where) = 1

\* The text the last call parsed to allocate a record, for the calls that
\* parse one.
ParsedText == IF last.op = "Parse" THEN last.src ELSE foreign[last.a.id]

Parses == last.op = "Parse" \/ (last.op \in {"ParseErr", "As"} /\ last.a.k = "foreign")

\* The text is a JSON object that decodes into an ErrData.
Decodes(x) == Len(x) > 0 /\ x[1] = "{" /\ ~Unmarshal(x).err

RECURSIVE Floated(_)
\* The item as it comes back from JSON: a Go int as a float64.
Floated(v) ==
    CASE v.t = "int" -> VFloat(v.v)
      [] v.t = "arr" -> VArr([i \in 1..Len(v.v) |-> Floated(v.v[i])])
      [] OTHER -> v

FloatedEntry(entry) ==
    [entry EXCEPT !.e = [j \in 1..Len(entry.e) |-> Floated(entry.e[j])]]

FloatedReason(reason) ==
    [reason EXCEPT !.e = [i \in 1..Len(reason.e) |-> FloatedEntry(reason.e[i])]]

\* A record whose history starts at a call of New from the program or from
\* the package initialiser, not at a text: construct and annotate made it.
FromNew(r) ==
    /\ GoLen(r.Reason) >= 1 /\ GoLen(r.Where) >= 1
    /\ r.Reason.e[1] = NewEntry
    /\ r.Where.e[1] \in {caller(InitSite(ErrorsGo)), caller(SiteNew)}

C7_ParseCases ==
    last.op = "Parse" =>
        /\ \A i \in 1..Len(last.pre) : heap[i] = last.pre[i]
        /\ IF last.src = <<>>
           THEN last.res = NilErr /\ heap = last.pre
           ELSE /\ Allocated
                /\ last.res = Rec(Len(heap))
                /\ IF Decodes(last.src)
                   THEN Fresh = Unmarshal(last.src).data
                   ELSE AsConstructed(Fresh, last.src, NewEntry)
        /\ last.src = TxtDataNotFound => ~Decodes(last.src)
        /\ last.src = TxtBadType => ~Decodes(last.src)
        /\ last.src = TxtOnlyCode =>
              Fresh = [Code |-> TxtA, Reason |-> NilSl, Where |-> NilSl]
        /\ last.src = TxtNoWhere =>
              Fresh = [Code |-> TxtA,
                       Reason |-> Sl(<<Sl(<<VStr(<<"x">>)>>)>>),
                       Where |-> NilSl]

\* Parse has fallen back to New on a text that starts with a brace.
C7_Witness ==
    /\ last.op = "Parse" /\ Len(last.src) > 0 /\ last.src[1] = "{"
    /\ ~Decodes(last.src)
    /\ AsConstructed(Fresh, last.src, NewEntry)

(***************************************************************************)
(* C2, as stated.  For every record made by New and As calls, Error() is    *)
(* not empty and Parse of it gives a record with the same Code, Reason and  *)
(* Where.                                                                   *)
(***************************************************************************)
C2_RoundTripExact ==
    last.op = "Parse" =>
        \A e \in 1..Len(last.pre) :
            (FromNew(last.pre[e]) /\ last.src = Error(last.pre[e])) =>
                /\ Len(last.src) > 0
                /\ Allocated
                /\ Fresh.Code = last.pre[e].Code
                /\ Fresh.Reason = last.pre[e].Reason
                /\ Fresh.Where = last.pre[e].Where

(***************************************************************************)
(* C2, amended.  Error() of a record is never empty.  When every reason     *)
(* item can be encoded, Parse of it gives a record with the same Code and   *)
(* Where, and the same Reason but for Go ints, which come back as float64   *)
(* (the very same Reason when it holds no number).  When some item cannot   *)
(* be encoded, Error() is the %v dump of the record and Parse of it gives   *)
(* what New(dump) gives.                                                    *)
(***************************************************************************)
C2_RoundTrip ==
    last.op = "Parse" =>
        \A e \in 1..Len(last.pre) :
            last.src = Error(last.pre[e]) =>
                /\ Len(last.src) > 0
                /\ Allocated
                /\ last.res = Rec(Len(heap))
                /\ IF DataEncodable(last.pre[e])
                   THEN /\ Fresh.Code = last.pre[e].Code
                        /\ Fresh.Where = last.pre[e].Where
                        /\ Fresh.Reason = FloatedReason(last.pre[e].Reason)
                   ELSE /\ last.src = Sprintf(last.pre[e])
                        /\ AsConstructed(Fresh, last.src, NewEntry)

\* Parse has read back the text of a record that New made and As annotated
\* with a string that needs escaping.
C2_Witness ==
    /\ last.op = "Parse"
    /\ \E e \in 1..Len(last.pre) :
          /\ FromNew(last.pre[e])
          /\ last.src = Error(last.pre[e])
          /\ GoLen(last.pre[e].Reason) = 2
          /\ last.pre[e].Reason.e[2] = Sl(<<VStr(<<"x", "\"">>)>>)
          /\ Fresh = last.pre[e]

\* len(Reason) - len(Where) of a record.
LenDiff(r) == GoLen(r.Reason) - GoLen(r.Where)

\* The marker entry the copy of the package in use writes.
ImplEntry == IF impl = ErrorsGo THEN NewEntry ELSE InitEntry

(***************************************************************************)
(* C4, as stated.  In every record, however it was made, Reason and Where   *)
(* have the same length.                                                    *)
(***************************************************************************)
C4_SameLengthAlways ==
    \A i \in Recs : GoLen(heap[i].Reason) = GoLen(heap[i].Where)

(***************************************************************************)
(* C4, amended.  No call changes the difference between the lengths of      *)
(* Reason and Where of an existing record.  A new record has both lengths   *)
(* equal when New made it, directly or as the fallback of the parser; a     *)
(* record decoded from a JSON text starts with the lengths of the reason    *)
(* and where arrays of that text, which differ when the text omits one.     *)
(***************************************************************************)
C4_LengthDifferenceKept ==
    /\ \A i \in 1..Len(last.pre) :
          i <= Len(heap) /\ LenDiff(heap[i]) = LenDiff(last.pre[i])
    /\ Allocated =>
          IF Parses /\ Decodes(ParsedText)
          THEN LenDiff(Fresh) = LenDiff(Unmarshal(ParsedText).data)
          ELSE LenDiff(Fresh) = 0
    /\ LenDiff(heap[1]) = 0

\* The free function As has annotated the record parsed from a foreign
\* error whose message is a JSON text without "where".
C4_Witness ==
    /\ last.op = "As" /\ last.a.k = "foreign" /\ Allocated
    /\ foreign[last.a.id] = TxtNoWhere
    /\ GoLen(Fresh.Reason) = 2 /\ GoLen(Fresh.Where) = 1

(***************************************************************************)
(* C9, as stated.  Every record has a non-empty Reason whose first entry is *)
(* ["new"], and New(c) gives Code c, Reason [["new"]] and one location.     *)
(***************************************************************************)
C9_FirstReasonIsNew ==
    /\ \A i \in Recs :
          GoLen(heap[i].Reason) >= 1 /\ heap[i].Reason.e[1] = NewEntry
    /\ last.op = "New" => AsConstructed(Fresh, last.src, NewEntry)

(***************************************************************************)
(* C9, amended.  New(c) gives Code c, one location (its caller) and a       *)
(* Reason of one marker entry, ["new"] in errors.go and ["init"] in the     *)
(* second copy; so does the parser for a text it does not decode, with the  *)
(* text as Code.  A record decoded from a JSON text has the Reason of that  *)
(* text, which may be empty or start with anything.  The sentinel starts    *)
(* with the marker, and no call changes the first entry of a record.        *)
(***************************************************************************)
C9_FirstReasonKept ==
    /\ heap[1].Code = TxtDataNotFound
    /\ GoLen(heap[1].Reason) >= 1
    /\ heap[1].Reason.e[1] = ImplEntry
    /\ \A i \in 1..Len(last.pre) :
          GoLen(last.pre[i].Reason) >= 1 =>
              /\ GoLen(heap[i].Reason) >= 1
              /\ heap[i].Reason.e[1] = last.pre[i].Reason.e[1]
    /\ last.op = "New" =>
          /\ Allocated
          /\ AsConstructed(Fresh, last.src, ImplEntry)
          /\ Fresh.Where = Sl(<<last.at>>)
    /\ (Parses /\ Allocated) =>
          IF Decodes(ParsedText)
          THEN /\ IsPrefix(Unmarshal(ParsedText).data.Reason, Fresh.Reason)
               /\ last.op # "As" =>
                     Fresh.Reason = Unmarshal(ParsedText).data.Reason
          ELSE /\ Fresh.Code = ParsedText
               /\ GoLen(Fresh.Reason) >= 1
               /\ Fresh.Reason.e[1] = ImplEntry
               /\ last.op # "As" => AsConstructed(Fresh, ParsedText, ImplEntry)

\* New of the second copy has made a record, marked ["init"].
C9_Witness ==
    /\ last.op = "New" /\ impl = Part000
    /\ AsConstructed(Fresh, TxtA, InitEntry)

(***************************************************************************)
(* C10.  Once both threads have returned from As on the shared record:      *)
(* when the callers serialized the calls, Reason and Where each hold        *)
(* exactly the two new entries after the old ones, each reason at the index *)
(* of its own call's location; when they did not, the old entries are still *)
(* there, Reason and Where each hold one or two new entries taken from the  *)
(* two calls, no call's entry twice, so an entry may be lost and a reason   *)
(* may sit at the index of the other call's location.                       *)
(***************************************************************************)
RaceDone == \A t \in Threads : thr[t].pc = "done"

Shared == heap[ErrNoData.id]

\* The old entries, then the entry of thread t, then that of thread u.
InOrder(t, u) ==
    /\ Shared.Reason = Sl(<<NewEntry, thr[t].reason, thr[u].reason>>)
    /\ Shared.Where =
          Sl(<<caller(InitSite(ErrorsGo)), thr[t].at, thr[u].at>>)

\* The new entries of the slice s, given the one old entry it started with.
NewEntries(s) == {s.e[k] : k \in 2..GoLen(s)}

C10_RaceOutcomes ==
    RaceDone =>
        /\ Shared.Code = TxtDataNotFound
        /\ Shared.Reason.e[1] = NewEntry
        /\ Shared.Where.e[1] = caller(InitSite(ErrorsGo))
        /\ mutex.used => (InOrder(1, 2) \/ InOrder(2, 1))
        /\ ~mutex.used =>
              /\ GoLen(Shared.Reason) \in {2, 3}
              /\ GoLen(Shared.Where) \in {2, 3}
              /\ NewEntries(Shared.Reason) \subseteq
                    {thr[t].reason : t \in Threads}
              /\ NewEntries(Shared.Where) \subseteq {thr[t].at : t \in Threads}
              /\ Cardinality(NewEntries(Shared.Reason)) = GoLen(Shared.Reason) - 1
              /\ Cardinality(NewEntries(Shared.Where)) = GoLen(Shared.Where) - 1

\* Both unserialized calls are over, both reasons are there, and the reason
\* of thread 1 sits at the index of the location of thread 2.
C10_Witness ==
    /\ RaceDone /\ ~mutex.used
    /\ GoLen(Shared.Reason) = 3 /\ GoLen(Shared.Where) = 3
    /\ Shared.Reason.e[2] = thr[1].reason
    /\ Shared.Where.e[2] = thr[2].at

(***************************************************************************)
(* C5.  ParseErr, Equal and the free function As never dereference a nil    *)
(* record, whatever they are given.                                         *)
(***************************************************************************)
C5_NeverNilDeref ==
    last.op \in {"ParseErr", "Equal", "As"} => ~last.panic

(***************************************************************************)
(* C1.  For every pair of error values, Equal does not fail, is true for    *)
(* the same reference, false when exactly one is nil, and otherwise true    *)
(* exactly when the codes of ParseErr of both are equal; the method gives   *)
(* what the function gives.                                                 *)
(***************************************************************************)
\* The code of ParseErr(err), for err not nil with a non-empty message.
CodeOf(err) ==
    IF err.k = "rec" THEN heap[err.id].Code
    ELSE parse(impl, foreign[err.id]).data.Code

\* ParseErr(err) is a record.
Normal(err) == err.k = "rec" \/ Len(foreign[err.id]) > 0

C1_EqualByCode ==
    \A a, b \in ErrVals(heap, foreign) :
        LET r == Equal(heap, foreign, impl, a, b)
        IN /\ ~r.panic
           /\ a = b => r.res
           /\ (a # b /\ (a = NilErr \/ b = NilErr)) => ~r.res
           /\ (a # b /\ a # NilErr /\ b # NilErr /\ Normal(a) /\ Normal(b)) =>
                 (r.res <=> (CodeOf(a) = CodeOf(b)))
           /\ a.k = "rec" => EqualMethod(heap, foreign, impl, a.id, b) = r

(***************************************************************************)
(* C6.  ParseErr(nil) is nil; ParseErr of a record is that record, nothing  *)
(* allocated; ParseErr of a foreign error is a record that was not there    *)
(* before.  The free function As on a foreign error leaves every existing   *)
(* record and the foreign error as they were and returns a new record       *)
(* whose last entry is the passed reason, so two such calls give two        *)
(* records.                                                                 *)
(***************************************************************************)
C6_NormalizeAliasing ==
    /\ last.op = "ParseErr" =>
          /\ last.a = NilErr => (last.res = NilErr /\ heap = last.pre)
          /\ last.a.k = "rec" => (last.res = last.a /\ heap = last.pre)
          /\ last.a.k = "foreign" =>
                /\ Allocated
                /\ last.res = Rec(Len(heap))
                /\ \A i \in 1..Len(last.pre) : heap[i] = last.pre[i]
    /\ (last.op = "As" /\ last.a.k = "foreign") =>
          /\ ~last.panic
          /\ Allocated
          /\ last.res = Rec(Len(heap))
          /\ \A i \in 1..Len(last.pre) : heap[i] = last.pre[i]
          /\ Fresh.Reason.e[GoLen(Fresh.Reason)] = last.reason

(***************************************************************************)
(* C8.  Annotating a record, with any reason, changes the result of no      *)
(* Equal between a record and any error value, in either order: what Equal  *)
(* gave before the As it gives after.                                       *)
(***************************************************************************)
C8_EqualUnchangedByAs ==
    (last.op \in {"As", "AsMethod"} /\ last.a.k = "rec") =>
        \A i \in 1..Len(last.pre) : \A b \in ErrVals(last.pre, foreign) :
            /\ Equal(heap, foreign, impl, Rec(i), b) =
                  Equal(last.pre, foreign, impl, Rec(i), b)
            /\ Equal(heap, foreign, impl, b, Rec(i)) =
                  Equal(last.pre, foreign, impl, b, Rec(i))

====
